---- MODULE Spec2Model ----
(***************************************************************************)
(* Model of the `guidance` crate (src/src/lib.rs): the Target type, the    *)
(* closing test, ideal proportional navigation, the linear intercept       *)
(* solver, the steering wrapper, and the integration loop of tests::miss.  *)
(*                                                                         *)
(* The crate is generic over N: RealField.  The model instantiates N       *)
(* twice:                                                                  *)
(*   "ex"  - exact arithmetic in the field Q(sqrt d): the number           *)
(*           (x + y*sqrt(d)) / n, kept in lowest terms.  One square root   *)
(*           (the discriminant's) is all linear_aim adjoins.               *)
(*   "flt" - binary floating point, s * m * 2^e with a mantissa m of Bits   *)
(*           bits, every operation rounded to nearest, ties to even, as    *)
(*           IEEE 754 does; it stands for the f64 of the tests (53 bits),  *)
(*           whose iteration cannot be carried exactly.                    *)
(* A Euclidean norm is irrational in general, so a norm is carried by its  *)
(* square, and a vector divided or multiplied by norms is carried with the *)
(* norms beside it (Unit, goal, delta below).                              *)
(***************************************************************************)
EXTENDS Integers, Sequences, FiniteSets, TLC

VARIABLES
    call,          \* the last library call: its operation, arguments, result
    pc,            \* "lib" | "called" | "loop" | "returned" | "panicked"
    target,        \* tests::miss: the mutable `target` argument
    acceleration,  \* tests::miss: `acceleration` of the last iteration
    distance       \* tests::miss: the returned `distance`

vars == <<call, pc, target, acceleration, distance>>

----------------------------------------------------------------------------
(* Bounds of the inputs the library is called with.                        *)

MaxCoord == 1
MaxSpeed == 2
MaxGain == 3

(* Mantissa bits of the floating-point numbers.                            *)
Bits == 24

----------------------------------------------------------------------------------------------------------------------------------------
(* Integer helpers.  An operator's arguments and LET definitions are       *)
(* evaluated where they are used; a value that is used more than once is   *)
(* bound through a singleton set, {e : v \in {value}}, so that it is       *)
(* computed once.                                                          *)

Only(S) == CHOOSE x \in S : TRUE

AbsInt(i) == IF i < 0 THEN -i ELSE i

SgnInt(i) == IF i < 0 THEN -1 ELSE IF i = 0 THEN 0 ELSE 1

RECURSIVE GCD(_, _)
GCD(i, j) == Only({IF b = 0 THEN a ELSE GCD(b, a % b) : a \in {i}, b \in {j}})

RECURSIVE ISqrt(_)
ISqrt(i) ==
    Only({IF a < 2 THEN a
          ELSE Only({IF (s + 1) * (s + 1) <= a THEN s + 1 ELSE s :
                     s \in {2 * ISqrt(a \div 4)}}) :
          a \in {i}})

(* x*y = q*d + r with 0 <= r < d, for naturals, without forming x*y: four *)
(* bits of y at a time.                                                    *)
RECURSIVE MulDivNat(_, _, _)
MulDivNat(x, y, d) ==
    IF y = 0 THEN [q |-> 0, r |-> 0]
    ELSE Only({LET r16 == 16 * h.r + (y % 16) * (x % d)
               IN  [q |-> 16 * h.q + (y % 16) * (x \div d) + (r16 \div d),
                    r |-> r16 % d] :
               h \in {MulDivNat(x, y \div 16, d)}})

(* The number of bits of a natural below 2^31.                             *)
BitLen(n) ==
    IF n = 0 THEN 0
    ELSE CHOOSE l \in 1 .. 31 : n >= 2 ^ (l - 1) /\ (l = 31 \/ n < 2 ^ l)

----------------------------------------------------------------------------
(* The two instances of N: RealField.                                      *)

FltZero == [k |-> "flt", s |-> 0, m |-> 0, e |-> 0]

(* sign * n * 2^e as a floating-point number: n brought to Bits bits,      *)
(* rounded to nearest, ties to even.                                       *)
Pack(sign, n, e) ==
    Only({IF sg = 0 \/ nn = 0 THEN FltZero
          ELSE IF l <= Bits
          THEN [k |-> "flt", s |-> sg, m |-> nn * 2 ^ (Bits - l),
                e |-> ee - (Bits - l)]
          ELSE Only({IF q = 2 ^ Bits
                     THEN [k |-> "flt", s |-> sg, m |-> 2 ^ (Bits - 1),
                           e |-> ee + (l - Bits) + 1]
                     ELSE [k |-> "flt", s |-> sg, m |-> q, e |-> ee + (l - Bits)] :
                     q \in {LET lo == nn % 2 ^ (l - Bits)
                                hi == nn \div 2 ^ (l - Bits)
                            IN  IF 2 * lo > 2 ^ (l - Bits)
                                   \/ (2 * lo = 2 ^ (l - Bits) /\ hi % 2 = 1)
                                THEN hi + 1 ELSE hi}}) :
          sg \in {sign}, nn \in {n}, ee \in {e}, l \in {BitLen(n)}})

(* A quotient q with remainder r of d, with two more bits that tell r/d    *)
(* below, at or above one half.                                            *)
Guarded(qr, d) ==
    4 * qr.q + (IF qr.r = 0 THEN 0 ELSE IF 2 * qr.r < d THEN 1
                ELSE IF 2 * qr.r = d THEN 2 ELSE 3)

FltMul(a, b) ==
    Only({Pack(a.s * b.s, Guarded(qr, 2 ^ (Bits - 1)), a.e + b.e + Bits - 3) :
          qr \in {MulDivNat(a.m, b.m, 2 ^ (Bits - 1))}})

(* Division by zero (IEEE: an infinity or NaN) is left undefined.          *)
FltDiv(a, b) ==
    IF a.s = 0 THEN FltZero
    ELSE Only({Pack(a.s * b.s, Guarded(qr, b.m), a.e - b.e - Bits - 2) :
               qr \in {MulDivNat(a.m, 2 ^ Bits, b.m)}})

(* a + b for a.e >= b.e: b aligned to a with six more bits, the last one   *)
(* sticky.                                                                 *)
FltAddOrdered(a, b) ==
    IF a.e - b.e > Bits + 2 THEN a
    ELSE Only({Only({Pack(SgnInt(n), AbsInt(n), a.e - 6) :
                     n \in {a.s * a.m * 64 + b.s * lo}}) :
               lo \in {LET whole == (b.m * 64) \div 2 ^ (a.e - b.e)
                           rest == (b.m * 64) % 2 ^ (a.e - b.e)
                       IN  IF rest > 0 /\ whole % 2 = 0 THEN whole + 1
                           ELSE whole}})

FltAdd(a, b) ==
    IF a.s = 0 THEN b
    ELSE IF b.s = 0 THEN a
    ELSE IF a.e >= b.e THEN FltAddOrdered(a, b)
    ELSE FltAddOrdered(b, a)

(* (x + y*sqrt(d)) / n in lowest terms, n > 0, d = 0 when y = 0.           *)
Ex(x, y, n, d) ==
    Only({Only({[k |-> "ex", x |-> a \div g, y |-> b \div g, n |-> c \div g,
                 d |-> IF b = 0 THEN 0 ELSE d] :
                g \in {GCD(GCD(AbsInt(a), AbsInt(b)), c)}}) :
          a \in {IF n < 0 THEN -x ELSE x},
          b \in {IF d = 0 THEN 0 ELSE IF n < 0 THEN -y ELSE y},
          c \in {AbsInt(n)}})

(* The radicand two exact numbers share.                                   *)
Radicand(p, q) == IF p.y # 0 THEN p.d ELSE q.d

ExAdd(p, q) ==
    Ex(p.x * q.n + q.x * p.n, p.y * q.n + q.y * p.n, p.n * q.n, Radicand(p, q))

ExMul(p, q) ==
    Ex(p.x * q.x + p.y * q.y * Radicand(p, q), p.x * q.y + p.y * q.x,
       p.n * q.n, Radicand(p, q))

(* 1/q = n*(x - y*sqrt(d)) / (x^2 - y^2*d), for q # 0.                     *)
ExInv(q) == Ex(q.n * q.x, -(q.n * q.y), q.x * q.x - q.y * q.y * q.d, q.d)

ExSign(p) ==
    IF p.x >= 0 /\ p.y >= 0 THEN (IF p.x = 0 /\ p.y = 0 THEN 0 ELSE 1)
    ELSE IF p.x <= 0 /\ p.y <= 0 THEN -1
    ELSE IF p.x > 0 THEN SgnInt(p.x * p.x - p.y * p.y * p.d)
    ELSE SgnInt(p.y * p.y * p.d - p.x * p.x)

(* na::zero() and na::convert(num/den) at the number type F.               *)
zero(F) == IF F = "flt" THEN FltZero ELSE Ex(0, 0, 1, 0)

convert(F, num, den) ==
    IF F = "flt"
    THEN FltDiv(Pack(SgnInt(num), AbsInt(num), 0), Pack(SgnInt(den), AbsInt(den), 0))
    ELSE Ex(num, 0, den, 0)

Neg(p) ==
    Only({IF a.k = "flt" THEN [a EXCEPT !.s = -a.s]
          ELSE Ex(-a.x, -a.y, a.n, a.d) :
          a \in {p}})

Add(p, q) ==
    Only({IF a.k = "flt" THEN FltAdd(a, b) ELSE ExAdd(a, b) :
          a \in {p}, b \in {q}})

Sub(p, q) == Add(p, Neg(q))

Mul(p, q) ==
    Only({IF a.k = "flt" THEN FltMul(a, b) ELSE ExMul(a, b) :
          a \in {p}, b \in {q}})

Div(p, q) ==
    Only({IF a.k = "flt" THEN FltDiv(a, b)
          ELSE Only({ExMul(a, i) : i \in {ExInv(b)}}) :
          a \in {p}, b \in {q}})

Sign(p) == Only({IF a.k = "flt" THEN a.s ELSE ExSign(a) : a \in {p}})

Abs(p) == Only({IF Sign(a) < 0 THEN Neg(a) ELSE a : a \in {p}})

Less(p, q) == Sign(Sub(p, q)) < 0

GreaterEq(p, q) == Sign(Sub(p, q)) >= 0

(* Mutant of try_sqrt: zero refused as well.                               *)
try_sqrt_positive(p) ==
    Only({IF a.x <= 0 THEN [some |-> FALSE]
          ELSE Only({[some |-> TRUE,
                      val |-> IF s * s = a.x * a.n THEN Ex(s, 0, a.n, 0)
                              ELSE Ex(0, 1, a.n, a.x * a.n)] :
                     s \in {ISqrt(a.x * a.n)}}) :
          a \in {p}})

(* RealField::try_sqrt of a rational: None below zero.                     *)
try_sqrt(p) ==
    Only({IF a.x < 0 THEN [some |-> FALSE]
          ELSE Only({[some |-> TRUE,
                      val |-> IF s * s = a.x * a.n THEN Ex(s, 0, a.n, 0)
                              ELSE Ex(0, 1, a.n, a.x * a.n)] :
                     s \in {ISqrt(a.x * a.n)}}) :
          a \in {p}})

----------------------------------------------------------------------------
(* na::Vector3<N>.                                                         *)

VAdd(u, v) ==
    Only({<<Add(a[1], b[1]), Add(a[2], b[2]), Add(a[3], b[3])>> :
          a \in {u}, b \in {v}})

VNeg(u) == Only({<<Neg(a[1]), Neg(a[2]), Neg(a[3])>> : a \in {u}})

VScale(u, s) ==
    Only({<<Mul(a[1], b), Mul(a[2], b), Mul(a[3], b)>> : a \in {u}, b \in {s}})

VDiv(u, s) ==
    Only({<<Div(a[1], b), Div(a[2], b), Div(a[3], b)>> : a \in {u}, b \in {s}})

dot(u, v) ==
    Only({Add(Add(Mul(a[1], b[1]), Mul(a[2], b[2])), Mul(a[3], b[3])) :
          a \in {u}, b \in {v}})

cross(u, v) ==
    Only({<<Sub(Mul(a[2], b[3]), Mul(a[3], b[2])),
            Sub(Mul(a[3], b[1]), Mul(a[1], b[3])),
            Sub(Mul(a[1], b[2]), Mul(a[2], b[1]))>> :
          a \in {u}, b \in {v}})

norm_squared(u) == Only({dot(a, a) : a \in {u}})

(* The norm, carried by its square.                                        *)
norm(u) == [sq |-> norm_squared(u)]

(* na::Unit::new_normalize: u / |u|, the quotient left unevaluated.  It is *)
(* not a vector when |u| = 0 (0/0 in every component).                     *)
new_normalize(u) == Only({[along |-> a, over |-> norm(a)] : a \in {u}})

----------------------------------------------------------------------------
(* Target<N> and the library (src/src/lib.rs).                             *)

Target(position, velocity) == [position |-> position, velocity |-> velocity]

(* The number type a target is built over.                                 *)
FieldOf(t) == t.position[1].k

(* Mutants of is_closing: the comparison turned round; zero let through.   *)
is_closing_flipped(tgt) ==
    Only({Less(zero(FieldOf(t)), dot(t.position, t.velocity)) : t \in {tgt}})

is_closing_inclusive(tgt) ==
    Only({~Less(zero(FieldOf(t)), dot(t.position, t.velocity)) : t \in {tgt}})

is_closing(tgt) ==
    Only({Less(dot(t.position, t.velocity), zero(FieldOf(t))) : t \in {tgt}})

(* Mutants of ipn: the line of sight, not the velocity, crossed with w_s;  *)
(* the operands of the second cross product exchanged.                     *)
ipn_along_position(navigation_constant, tgt) ==
    Only({IF ~is_closing(t) THEN [ok |-> FALSE]
          ELSE LET w_s == VDiv(cross(t.position, t.velocity),
                               norm_squared(t.position))
               IN  [ok |-> TRUE,
                    val |-> cross(VScale(t.position, navigation_constant), w_s)] :
          t \in {tgt}})

ipn_reversed(navigation_constant, tgt) ==
    Only({IF ~is_closing(t) THEN [ok |-> FALSE]
          ELSE LET w_s == VDiv(cross(t.position, t.velocity),
                               norm_squared(t.position))
               IN  [ok |-> TRUE,
                    val |-> cross(w_s, VScale(t.velocity, navigation_constant))] :
          t \in {tgt}})

(* ok = FALSE is the failed debug_assert!(target.is_closing()).            *)
ipn(navigation_constant, tgt) ==
    Only({IF ~is_closing(t) THEN [ok |-> FALSE]
          ELSE LET w_s == VDiv(cross(t.position, t.velocity),
                               norm_squared(t.position))
               IN  [ok |-> TRUE,
                    val |-> cross(VScale(t.velocity, navigation_constant), w_s)] :
          t \in {tgt}})

(* Mutant of min_by: the comparison turned round (the latest root).        *)
RECURSIVE min_by_reversed(_)
min_by_reversed(xs) ==
    IF Len(xs) = 1 THEN xs[1]
    ELSE Only({IF Less(xs[1], m) THEN m ELSE xs[1] :
               m \in {min_by_reversed(Tail(xs))}})

(* Iterator::min_by over partial_cmp, of a non-empty sequence.             *)
RECURSIVE min_by(_)
min_by(xs) ==
    IF Len(xs) = 1 THEN xs[1]
    ELSE Only({IF Less(m, xs[1]) THEN m ELSE xs[1] : m \in {min_by(Tail(xs))}})

NonNegative(x) == Only({GreaterEq(a, zero(a.k)) : a \in {x}})

(* .filter(|&x| x >= na::zero()): the non-negative elements, in order.     *)
RECURSIVE Filter(_)
Filter(xs) ==
    IF xs = <<>> THEN <<>>
    ELSE (IF NonNegative(Head(xs)) THEN <<Head(xs)>> ELSE <<>>) \o Filter(Tail(xs))

(* Mutant of Roots: the quadratic formula divided by a, not 2a.            *)
Roots_over_a(a, b, rt) ==
    <<Div(Add(Neg(b), rt), a), Div(Sub(Neg(b), rt), a)>>

(* The two roots (-b + rt)/(2a), (-b - rt)/(2a), lines 48-49.              *)
Roots(a, b, rt) ==
    Only({<<Div(Add(Neg(b), rt), twoA), Div(Sub(Neg(b), rt), twoA)>> :
          twoA \in {Mul(convert(rt.k, 2, 1), a)}})

(* Lines 47-57: the square root of the discriminant, the earliest          *)
(* non-negative root, the direction to the tgt's place at that time.    *)
Intercept(t, a, b, c) ==
    Only({IF ~rt.some THEN [kind |-> "None"]
          ELSE Only({IF roots = <<>> THEN [kind |-> "Panic"]
                     ELSE Only({[kind |-> "Some",
                                 dir |-> new_normalize(
                                     VAdd(t.position, VScale(t.velocity, tm))),
                                 t |-> tm] :
                                tm \in {min_by(roots)}}) :
                     roots \in {Filter(Roots(a, b, rt.val))}}) :
          rt \in {try_sqrt(Sub(Mul(b, b), Mul(Mul(convert(a.k, 4, 1), a), c)))}})

(* kind = "None": the function returned None; "Some": Some((dir, t));      *)
(* "Panic": Option::unwrap of the empty minimum panicked.                  *)
linear_aim(tgt, speed) ==
    Only({IF Less(Abs(a), convert(a.k, 1, 1000))
          THEN [kind |-> "Some", dir |-> new_normalize(t.position),
                t |-> zero(a.k)]
          ELSE Only({Intercept(t, a, b, c) :
                     b \in {Mul(convert(a.k, 2, 1), dot(t.position, t.velocity))},
                     c \in {norm_squared(t.position)}}) :
          t \in {tgt},
          a \in {Sub(norm_squared(tgt.velocity), Mul(speed, speed))}})

(* Mutant of linear_steer: the target's velocity left unadjusted.          *)
linear_steer_unadjusted(tgt, current_velocity, average_speed) ==
    Only({IF r.kind # "Some" THEN [kind |-> r.kind]
          ELSE LET current_speed == norm(current_velocity)
                   goal == [along |-> r.dir.along, over |-> r.dir.over,
                            times |-> current_speed]
               IN  [kind |-> "Some",
                    delta |-> [goal |-> goal, minus |-> current_velocity],
                    t |-> r.t] :
          r \in {linear_aim(tgt, average_speed)}})

(* delta is goal - current_velocity with goal = dir * current_speed, i.e.  *)
(* goal.along * goal.times / goal.over, norms carried by their squares.    *)
linear_steer(tgt, current_velocity, average_speed) ==
    Only({IF r.kind # "Some" THEN [kind |-> r.kind]
          ELSE LET current_speed == norm(current_velocity)
                   goal == [along |-> r.dir.along, over |-> r.dir.over,
                            times |-> current_speed]
               IN  [kind |-> "Some",
                    delta |-> [goal |-> goal, minus |-> current_velocity],
                    t |-> r.t] :
          r \in {linear_aim(Target(tgt.position,
                                   VAdd(tgt.velocity, current_velocity)),
                            average_speed)}})

----------------
(* The callers' inputs: integer vectors and scalars, exact.                *)

Coords == -MaxCoord .. MaxCoord

ExInt(i) == Ex(i, 0, 1, 0)

ExVec(x, y, z) == <<ExInt(x), ExInt(y), ExInt(z)>>

Velocities == {ExVec(x, y, z) : x \in Coords, y \in Coords, z \in Coords}

(* Positions are taken in the octant x, y, z >= 0: reflecting an axis in   *)
(* position and velocity together changes no dot product and no norm, and  *)
(* reflects the vectors the library returns.                               *)
Positions ==
    {ExVec(x, y, z) : x \in 0 .. MaxCoord, y \in 0 .. MaxCoord, z \in 0 .. MaxCoord}

(* Engagements in the plane z = 0, as examples/anim.rs sets them up.       *)
Planar == {ExVec(x, y, 0) : x \in Coords, y \in Coords}

PlanarPositions == {ExVec(x, y, 0) : x \in 0 .. MaxCoord, y \in 0 .. MaxCoord}

Speeds == {ExInt(i) : i \in 0 .. MaxSpeed}

Gains == {ExInt(i) : i \in 1 .. MaxGain}

----------------------------------------------------------------------------
(* tests: the three scenarios and the loop of tests::miss, over f64.       *)

F64(num, den) == convert("flt", num, den)

TIMESTEP == F64(1, 100)

linear == Target(<<F64(0, 1), F64(0, 1), F64(-10, 1)>>,
                 <<F64(0, 1), F64(0, 1), F64(1, 1)>>)

deflection == Target(<<F64(0, 1), F64(-1, 1), F64(-10, 1)>>,
                     <<F64(0, 1), F64(1, 1), F64(1, 10)>>)

behind == Target(<<F64(0, 1), F64(0, 1), F64(10, 1)>>,
                 <<F64(0, 1), F64(1, 1), F64(-1, 1)>>)

Scenarios == {linear, deflection, behind}

NoCall == [op |-> "none"]

NoVector == <<F64(0, 1), F64(0, 1), F64(0, 1)>>

NoDistance == norm(NoVector)

----------------------------------------------------------------------------
(* States and steps.  A behaviour is either one call of a library function *)
(* (the functions are pure: calls do not affect each other) or one run of  *)
(* tests::miss on one of the three scenarios.                              *)

InitLib ==
    /\ pc = "lib"
    /\ call = NoCall
    /\ target = Target(NoVector, NoVector)
    /\ acceleration = NoVector
    /\ distance = NoDistance

InitMiss ==
    /\ pc = "loop"
    /\ call = NoCall
    /\ target \in Scenarios
    /\ acceleration = NoVector
    /\ distance = NoDistance

Init == InitLib \/ InitMiss

CallIsClosing ==
    /\ pc = "lib"
    /\ \E p \in Positions, v \in Velocities :
          call' = [op |-> "is_closing", target |-> Target(p, v),
                   result |-> is_closing(Target(p, v))]
    /\ pc' = "called"
    /\ UNCHANGED <<target, acceleration, distance>>

CallIpn ==
    /\ pc = "lib"
    /\ \E p \in Positions, v \in Velocities, g \in Gains :
          call' = [op |-> "ipn", navigation_constant |-> g,
                   target |-> Target(p, v), result |-> ipn(g, Target(p, v))]
    /\ pc' = "called"
    /\ UNCHANGED <<target, acceleration, distance>>

CallLinearAim ==
    /\ pc = "lib"
    /\ \E p \in Positions, v \in Velocities, s \in Speeds :
          call' = [op |-> "linear_aim", target |-> Target(p, v), speed |-> s,
                   result |-> linear_aim(Target(p, v), s)]
    /\ pc' = "called"
    /\ UNCHANGED <<target, acceleration, distance>>

CallLinearSteer ==
    /\ pc = "lib"
    /\ \E p \in PlanarPositions, v \in Planar, cv \in Planar, s \in Speeds :
          call' = [op |-> "linear_steer", target |-> Target(p, v),
                   current_velocity |-> cv, average_speed |-> s,
                   result |-> linear_steer(Target(p, v), cv, s)]
    /\ pc' = "called"
    /\ UNCHANGED <<target, acceleration, distance>>

(* One iteration of `while target.is_closing()`: ipn, the assertion on the *)
(* acceleration, the semi-implicit Euler update.                           *)
Step ==
    /\ pc = "loop"
    /\ is_closing(target)
    /\ \E a \in {ipn(F64(3, 1), target)} :
          IF ~a.ok
             \/ ~Less(Abs(dot(a.val, target.velocity)), F64(1, 1000))
          THEN /\ pc' = "panicked"
               /\ UNCHANGED <<target, acceleration>>
          ELSE \E velocity \in {VAdd(target.velocity,
                                     VScale(VNeg(a.val), TIMESTEP))} :
                  /\ target' = Target(VAdd(target.position,
                                           VScale(velocity, TIMESTEP)),
                                      velocity)
                  /\ acceleration' = a.val
                  /\ pc' = "loop"
    /\ UNCHANGED <<call, distance>>

(* The loop's exit: `distance = target.position.norm()` is returned.       *)
Return ==
    /\ pc = "loop"
    /\ ~is_closing(target)
    /\ distance' = norm(target.position)
    /\ pc' = "returned"
    /\ UNCHANGED <<call, target, acceleration>>

Next ==
    \/ CallIsClosing
    \/ CallIpn
    \/ CallLinearAim
    \/ CallLinearSteer
    \/ Step
    \/ Return

Spec == Init /\ [][Next]_vars

NextMiss == Step \/ Return

SpecMiss == InitMiss /\ [][NextMiss]_vars /\ WF_vars(NextMiss)

----------------------------------------------------------------------------
(* The properties.  The inputs of a library call are integers; the         *)
(* quadratic's coefficients and the sign conditions on its roots are       *)
(* restated here over the integers, apart from the library's arithmetic.   *)

IntDot(u, v) == u[1].x * v[1].x + u[2].x * v[2].x + u[3].x * v[3].x

ZeroVector == ExVec(0, 0, 0)

IsAim == pc = "called" /\ call.op = "linear_aim"

QuadA == IntDot(call.target.velocity, call.target.velocity)
             - call.speed.x * call.speed.x

QuadB == 2 * IntDot(call.target.position, call.target.velocity)

QuadC == IntDot(call.target.position, call.target.position)

Discriminant == QuadB * QuadB - 4 * QuadA * QuadC

(* By Vieta: the roots' product c/a and sum -b/a.                          *)
BothRootsNegative ==
    QuadA # 0 /\ Discriminant >= 0 /\ QuadA * QuadC > 0 /\ QuadA * QuadB > 0

(* a*t^2 + b*t + c at a time t.                                            *)
QuadAt(t) ==
    Add(Add(Mul(ExInt(QuadA), Mul(t, t)), Mul(ExInt(QuadB), t)), ExInt(QuadC))

(* The root other than t: -b/a - t.                                        *)
OtherRoot(t) == Sub(Neg(Div(ExInt(QuadB), ExInt(QuadA))), t)

(* position + velocity*t of the call's target.                             *)
PlaceAt(t) == VAdd(call.target.position, VScale(call.target.velocity, t))

(* A normalised vector is a direction unless it was the zero vector.       *)
IsDirection(dir) == Sign(dir.over.sq) # 0

(* speed*t*d = place, for d = dir.along / |dir.along|: d is a direction,   *)
(* place lies along it on the side of the sign of speed*t, at that range.  *)
Reaches(speed, t, dir, place) ==
    /\ IsDirection(dir)
    /\ cross(dir.along, place) = ZeroVector
    /\ Sign(dot(dir.along, place)) = Sign(Mul(speed, t))
    /\ Mul(Mul(speed, t), Mul(speed, t)) = norm_squared(place)

(* C1: when the quadratic has real roots and both are negative, linear_aim *)
(* returns None: it neither panics nor returns a root.                     *)
C1_BothRootsNegativeIsNone ==
    IsAim /\ BothRootsNegative => call.result.kind = "None"

(* C2 as claimed: every Some((d, t)) linear_aim returns, the fallback's    *)
(* included, has speed*t*d = position + velocity*t.                        *)
C2_EveryResultReaches ==
    IsAim /\ call.result.kind = "Some"
        => Reaches(call.speed, call.result.t, call.result.dir,
                   PlaceAt(call.result.t))

(* C2 amended: a Some((d, t)) from the general branch (a # 0) has t >= 0,  *)
(* |position + velocity*t|^2 = (speed*t)^2 and d the normalisation of      *)
(* position + velocity*t; so speed*t*d = position + velocity*t when that   *)
(* place is not the origin (speed >= 0).                                   *)
C2_GeneralBranchReaches ==
    IsAim /\ call.result.kind = "Some" /\ QuadA # 0
        => LET t == call.result.t
               place == PlaceAt(t)
           IN  /\ Sign(t) >= 0
               /\ Mul(Mul(call.speed, t), Mul(call.speed, t)) = norm_squared(place)
               /\ call.result.dir.along = place
               /\ call.result.dir.over.sq = norm_squared(place)
               /\ (place # ZeroVector
                      => Reaches(call.speed, t, call.result.dir, place))

C2_Witness ==
    /\ IsAim /\ call.result.kind = "Some" /\ QuadA # 0
    /\ Sign(call.speed) > 0 /\ Sign(call.result.t) > 0
    /\ call.result.t.y # 0
    /\ Reaches(call.speed, call.result.t, call.result.dir, PlaceAt(call.result.t))

(* C3 as claimed: the acceleration ipn returns is exactly orthogonal to    *)
(* the velocity, in a library call and at every iteration of tests::miss.  *)
C3_ExactlyOrthogonal ==
    /\ pc = "called" /\ call.op = "ipn" /\ call.result.ok
          => Sign(dot(call.result.val, call.target.velocity)) = 0
    /\ pc = "loop" /\ is_closing(target)
          => Sign(dot(ipn(F64(3, 1), target).val, target.velocity)) = 0

(* C3 amended: for a closing target the acceleration ipn returns is        *)
(* orthogonal to the velocity in exact arithmetic; in the rounded          *)
(* arithmetic of tests::miss the dot product stays below the 1e-3 the      *)
(* loop asserts, at every iteration.                                       *)
C3_Orthogonal ==
    /\ pc = "called" /\ call.op = "ipn" /\ call.result.ok
          => Sign(dot(call.result.val, call.target.velocity)) = 0
    /\ pc = "loop" /\ is_closing(target)
          => Less(Abs(dot(ipn(F64(3, 1), target).val, target.velocity)),
                  F64(1, 1000))
    /\ pc # "panicked"

C3_Witness ==
    /\ pc = "called" /\ call.op = "ipn" /\ call.result.ok
    /\ call.result.val # ZeroVector
    /\ Sign(dot(call.result.val, call.target.velocity)) = 0

(* C4: is_closing returns true exactly when position . velocity < 0, and   *)
(* false for a zero or positive dot product.                               *)
C4_ClosingIffNegativeDot ==
    pc = "called" /\ call.op = "is_closing"
        => /\ call.result \in BOOLEAN
           /\ call.result <=> IntDot(call.target.position, call.target.velocity) < 0

C4_Witness ==
    /\ pc = "called" /\ call.op = "is_closing"
    /\ call.result = FALSE
    /\ call.target.position # ZeroVector /\ call.target.velocity # ZeroVector
    /\ IntDot(call.target.position, call.target.velocity) = 0

(* C5: outside the fallback (a # 0) linear_aim returns None when the       *)
(* discriminant is negative, and only then.                                *)
C5_NoneIffNegativeDiscriminant ==
    IsAim /\ QuadA # 0 => (call.result.kind = "None" <=> Discriminant < 0)

C5_Witness ==
    IsAim /\ QuadA # 0 /\ Discriminant < 0 /\ call.result.kind = "None"

(* C6: linear_steer returns None exactly when linear_aim does on the       *)
(* target with velocity target.velocity + current_velocity at speed        *)
(* average_speed, and the time it returns is that call's time.             *)
C6_SteerFailsAsAim ==
    pc = "called" /\ call.op = "linear_steer"
        => LET r == linear_aim(
                        Target(call.target.position,
                               VAdd(call.target.velocity, call.current_velocity)),
                        call.average_speed)
           IN  /\ call.result.kind = "None" <=> r.kind = "None"
               /\ call.result.kind = "Some" <=> r.kind = "Some"
               /\ call.result.kind = "Some" => call.result.t = r.t

C6_Witness ==
    /\ pc = "called" /\ call.op = "linear_steer"
    /\ call.current_velocity # ZeroVector
    /\ call.result.kind = "None"

(* C7: on each of the three scenarios the loop of tests::miss ends, and    *)
(* the distance it returns is below 1.0.                                   *)
MissBelowOne == Less(distance.sq, Mul(F64(1, 1), F64(1, 1)))

C7_MissTerminatesBelowOne ==
    /\ <>(pc = "returned")
    /\ [](pc = "returned" => MissBelowOne)
    /\ [](pc # "panicked")

C7_Witness == pc = "returned" /\ MissBelowOne /\ acceleration # NoVector

(* C8: outside the fallback, with a non-negative discriminant and a root   *)
(* that is not negative, linear_aim returns the smallest non-negative root *)
(* of a*t^2 + b*t + c; every time linear_aim returns is >= 0.              *)
C8_EarliestNonNegativeRoot ==
    /\ IsAim /\ QuadA # 0 /\ Discriminant >= 0 /\ ~BothRootsNegative
          => /\ call.result.kind = "Some"
             /\ Sign(QuadAt(call.result.t)) = 0
             /\ Sign(OtherRoot(call.result.t)) >= 0
                   => ~Less(OtherRoot(call.result.t), call.result.t)
    /\ IsAim /\ call.result.kind = "Some" => Sign(call.result.t) >= 0

C8_Witness ==
    /\ IsAim /\ QuadA # 0 /\ Discriminant > 0
    /\ call.result.kind = "Some"
    /\ Sign(call.result.t) > 0
    /\ Less(call.result.t, OtherRoot(call.result.t))

(* C9: a Some((delta, t)) of linear_steer has delta = |current_velocity|*d *)
(* - current_velocity for a unit direction d, so current_velocity + delta  *)
(* has the magnitude of current_velocity, and delta is zero when           *)
(* current_velocity is.                                                    *)
C9_SteerKeepsSpeed ==
    pc = "called" /\ call.op = "linear_steer" /\ call.result.kind = "Some"
        => LET goal == call.result.delta.goal
           IN  /\ call.result.delta.minus = call.current_velocity
               /\ goal.times.sq = norm_squared(call.current_velocity)
               /\ goal.over.sq = norm_squared(goal.along)
               /\ IsDirection(goal)

(* C10: a closing target has a non-zero position and a non-zero velocity,  *)
(* so the |position|^2 ipn divides by is positive whenever its             *)
(* precondition holds.                                                     *)
C10_ClosingExcludesZeroRange ==
    /\ pc = "called" /\ call.op = "is_closing" /\ call.result
          => /\ call.target.position # ZeroVector
             /\ call.target.velocity # ZeroVector
             /\ Sign(norm_squared(call.target.position)) > 0
    /\ pc = "called" /\ call.op = "ipn" /\ call.result.ok
          => Sign(norm_squared(call.target.position)) > 0
    /\ pc = "loop" /\ is_closing(target)
          => Sign(norm_squared(target.position)) > 0

C10_Witness ==
    /\ pc = "called" /\ call.op = "ipn" /\ call.result.ok
    /\ Sign(norm_squared(call.target.position)) > 0

====
